---------------------------- MODULE Spec2Model ----------------------------
(***************************************************************************)
(* A model of the connection hub of project-jarvis-be:                     *)
(*   - WebSocketManager (websocket_manager.py) with the endpoint loop of   *)
(*     its usage example, and                                              *)
(*   - WebSocketServer (main.py).                                          *)
(* A run of the model is a run of one of the two programs (impl).  Every   *)
(* await of the code is a suspension point: the code between two awaits is *)
(* one atomic action.  A send on a transport the peer has closed fails;    *)
(* timestamps are abstracted to the constant string "now".                 *)
(***************************************************************************)
EXTENDS Integers, Sequences, FiniteSets, TLC

\* ------------------------------------------------------------------ bounds
NumConns == 2          \* connection handles 1..NumConns
NumBcasts == 2         \* concurrent broadcast calls 1..NumBcasts
MaxMsgs == 2           \* inbound messages dispatched in a run
MaxLen == 4            \* tokens of an enumerated inbound payload
RecursionLimit == 2    \* nesting depth at which json raises RecursionError

Conns == 1..NumConns
Bcasts == 1..NumBcasts

\* ------------------------------------------------ text of a frame: tokens
\* A text frame is a sequence of JSON lexemes.  k is the lexeme's kind:
\*   "punct"  one of { } [ ] ,        "key"  "s":  (a member name and colon)
\*   "str"    "s"                     "num"  digits        "lit"  null
\*   "word"   bare text that is no JSON lexeme
Tok(k, s) == [k |-> k, s |-> s]
LB == Tok("punct", "{")
RB == Tok("punct", "}")
LS == Tok("punct", "[")
RS == Tok("punct", "]")
CM == Tok("punct", ",")
Key(s) == Tok("key", s)
StrTok(s) == Tok("str", s)

\* len(token): the quotes of a string, the quotes and colon of a key
Width(tok) ==
    CASE tok.k = "str" -> Len(tok.s) + 2
      [] tok.k = "key" -> Len(tok.s) + 3
      [] OTHER -> Len(tok.s)

RECURSIVE TextLen(_)
\* len(message)
TextLen(text) == IF text = <<>> THEN 0 ELSE Width(Head(text)) + TextLen(Tail(text))

\* ------------------------------------------------- parsed values: Python
\* A value is [k, t, s, items]: t its Python type name, s the text of an
\* atom, items the elements of a list or the members of a dict (in insertion
\* order, keys unique); k is the member name when the value is a dict member.
Val(t, s, items) == [k |-> "", t |-> t, s |-> s, items |-> items]
StrVal(s) == Val("str", s, <<>>)
IntVal(n) == Val("int", ToString(n), <<>>)
NoneVal == Val("NoneType", "null", <<>>)
ListVal(items) == Val("list", "", items)
DictVal(items) == Val("dict", "", items)
Member(name, v) == [v EXCEPT !.k = name]
Plain(v) == [v EXCEPT !.k = ""]

\* dict[name] = v: replaces the value of an existing key in place, else appends
SetItem(items, name, v) ==
    IF \E i \in 1..Len(items) : items[i].k = name
    THEN [i \in 1..Len(items) |-> IF items[i].k = name THEN Member(name, v) ELSE items[i]]
    ELSE Append(items, Member(name, v))

\* dict.get(name, default)
Get(d, name, default) ==
    IF \E i \in 1..Len(d.items) : d.items[i].k = name
    THEN Plain(d.items[CHOOSE i \in 1..Len(d.items) : d.items[i].k = name])
    ELSE default

HasKey(d, name) == \E i \in 1..Len(d.items) : d.items[i].k = name

RECURSIVE Depth(_)
\* nesting depth of a value: an atom 0, a container one more than its deepest item
Depth(v) ==
    IF v.t \in {"list", "dict"}
    THEN 1 + (IF v.items = <<>> THEN 0
              ELSE LET ds == {Depth(v.items[i]) : i \in 1..Len(v.items)}
                   IN CHOOSE m \in ds : \A n \in ds : n <= m)
    ELSE 0

\* ------------------------------------------------------------ json.loads
\* A parse result: st = "ok" (val, and nxt the next unread position),
\* "bad" (json.JSONDecodeError) or "deep" (RecursionError: nesting beyond
\* RecursionLimit, raised as soon as the scanner enters that level).
POk(v, n) == [st |-> "ok", val |-> v, nxt |-> n]
PBad == [st |-> "bad", val |-> NoneVal, nxt |-> 0]
PDeep == [st |-> "deep", val |-> NoneVal, nxt |-> 0]

RECURSIVE ParseValue(_, _, _), ParseElems(_, _, _, _), ParseMembers(_, _, _, _)
\* one JSON value starting at text[i], nested in `depth` containers
ParseValue(text, i, depth) ==
    IF i > Len(text) THEN PBad
    ELSE LET tok == text[i] IN
      CASE tok.k = "str" -> POk(StrVal(tok.s), i + 1)
        [] tok.k = "num" -> POk(Val("int", tok.s, <<>>), i + 1)
        [] tok.k = "lit" -> POk(NoneVal, i + 1)
        [] tok = LS ->
             IF depth + 1 > RecursionLimit THEN PDeep
             ELSE IF i + 1 <= Len(text) /\ text[i + 1] = RS THEN POk(ListVal(<<>>), i + 2)
             ELSE ParseElems(text, i + 1, depth + 1, <<>>)
        [] tok = LB ->
             IF depth + 1 > RecursionLimit THEN PDeep
             ELSE IF i + 1 <= Len(text) /\ text[i + 1] = RB THEN POk(DictVal(<<>>), i + 2)
             ELSE ParseMembers(text, i + 1, depth + 1, <<>>)
        [] OTHER -> PBad

\* the elements of a list after "[" or ",": value ("," value)* "]"
ParseElems(text, i, depth, acc) ==
    LET r == ParseValue(text, i, depth) IN
    IF r.st # "ok" THEN r
    ELSE IF r.nxt > Len(text) THEN PBad
    ELSE IF text[r.nxt] = RS THEN POk(ListVal(Append(acc, r.val)), r.nxt + 1)
    ELSE IF text[r.nxt] = CM THEN ParseElems(text, r.nxt + 1, depth, Append(acc, r.val))
    ELSE PBad

\* the members of a dict after "{" or ",": key value ("," key value)* "}"
ParseMembers(text, i, depth, acc) ==
    IF i > Len(text) \/ text[i].k # "key" THEN PBad
    ELSE LET r == ParseValue(text, i + 1, depth) IN
      IF r.st # "ok" THEN r
      ELSE IF r.nxt > Len(text) THEN PBad
      ELSE IF text[r.nxt] = RB
           THEN POk(DictVal(SetItem(acc, text[i].s, r.val)), r.nxt + 1)
      ELSE IF text[r.nxt] = CM
           THEN ParseMembers(text, r.nxt + 1, depth, SetItem(acc, text[i].s, r.val))
      ELSE PBad

\* json.loads(message): the whole text must be one value ("Extra data" otherwise)
loads(text) ==
    LET r == ParseValue(text, 1, 0) IN
    IF r.st = "ok" /\ r.nxt # Len(text) + 1 THEN PBad ELSE r

\* ------------------------------------------------------------ json.dumps
RECURSIVE Encode(_), EncodeItems(_, _, _)
\* the text of a value
Encode(v) ==
    CASE v.t = "str" -> <<StrTok(v.s)>>
      [] v.t = "int" -> <<Tok("num", v.s)>>
      [] v.t = "NoneType" -> <<Tok("lit", "null")>>
      [] v.t = "list" -> <<LS>> \o EncodeItems(v.items, 1, FALSE) \o <<RS>>
      [] v.t = "dict" -> <<LB>> \o EncodeItems(v.items, 1, TRUE) \o <<RB>>

EncodeItems(items, i, keyed) ==
    IF i > Len(items) THEN <<>>
    ELSE (IF i > 1 THEN <<CM>> ELSE <<>>)
         \o (IF keyed THEN <<Key(items[i].k)>> ELSE <<>>)
         \o Encode(Plain(items[i]))
         \o EncodeItems(items, i + 1, keyed)

\* json.dumps(response_data): [st |-> "ok", text] or "deep" (RecursionError)
dumps(v) ==
    IF Depth(v) > RecursionLimit
    THEN [st |-> "deep", text |-> <<>>]
    ELSE [st |-> "ok", text |-> Encode(v)]

\* ------------------------------------------------------- response builders
Now == StrVal("now")
RecursionError == "maximum recursion depth exceeded"

\* _handle_structured_message: the response_data passed to _send_response
handle_structured_message(data) ==
    LET message_type == Get(data, "type", StrVal("unknown")) IN
    IF message_type = StrVal("ping")
    THEN DictVal(<<Member("type", StrVal("pong")), Member("timestamp", Now)>>)
    ELSE IF message_type = StrVal("echo")
    THEN DictVal(<<Member("type", StrVal("echo_response")),
                   Member("original_message", data),
                   Member("timestamp", Now)>>)
    ELSE DictVal(<<Member("status", StrVal("received")),
                   Member("message_type", message_type),
                   Member("timestamp", Now),
                   Member("message", StrVal("Structured message received successfully"))>>)

\* _handle_json_data
handle_json_data(data) ==
    DictVal(<<Member("status", StrVal("received")),
              Member("data_type", StrVal(data.t)),
              Member("timestamp", Now),
              Member("message", StrVal("JSON data received successfully"))>>)

\* _handle_text_message
handle_text_message(message) ==
    DictVal(<<Member("status", StrVal("received")),
              Member("message_length", IntVal(TextLen(message))),
              Member("timestamp", Now),
              Member("message", StrVal("Text message received successfully"))>>)

\* mutant: the catch-all's response reports the message as received
send_error_response_received(error_message) ==
    DictVal(<<Member("status", StrVal("received")),
              Member("timestamp", Now),
              Member("message", StrVal("Error processing message: " \o error_message))>>)

\* _send_error_response: the error_response passed to _send_response
send_error_response(error_message) ==
    DictVal(<<Member("status", StrVal("error")),
              Member("timestamp", Now),
              Member("message", StrVal("Error processing message: " \o error_message))>>)

\* handle_message up to its call of _send_response: the response_data it
\* builds, and whether the catch-all (except Exception) built it
handle_message_response(message) ==
    LET r == loads(message) IN
    IF r.st = "deep"
    THEN [fault |-> TRUE, data |-> send_error_response(RecursionError)]
    ELSE IF r.st = "bad"
    THEN [fault |-> FALSE, data |-> handle_text_message(message)]
    ELSE IF r.val.t = "dict"
    THEN [fault |-> FALSE, data |-> handle_structured_message(r.val)]
    ELSE [fault |-> FALSE, data |-> handle_json_data(r.val)]

\* process_message up to its first send: the acknowledgment, or the
\* error_response when json.loads raised something other than JSONDecodeError
process_message_ack ==
    DictVal(<<Member("status", StrVal("received")),
              Member("timestamp", Now),
              Member("message", StrVal("Message received successfully"))>>)

process_message_error(error_message) ==
    DictVal(<<Member("status", StrVal("error")),
              Member("message", StrVal("Error processing message: " \o error_message))>>)

\* ------------------------------------------------------- inbound payloads
Tokens ==
    {LB, RB, LS, RS, CM, Key("type"), Key("a"), StrTok("ping"), StrTok("echo"),
     Tok("num", "1"), Tok("lit", "null")}

\* every text of at most MaxLen tokens
AllPayloads == UNION {[1..n -> Tokens] : n \in 0..MaxLen}

RECURSIVE NestText(_)
\* n nested lists: [[...]]
NestText(n) == IF n = 0 THEN <<>> ELSE <<LS>> \o NestText(n - 1) \o <<RS>>

PingMsg == <<LB, Key("type"), StrTok("ping"), RB>>
EchoMsg == <<LB, Key("type"), StrTok("echo"), RB>>
TextMsg == <<Tok("word", "hello")>>
\* nested one level deeper than json.loads can scan
DeepMsg == NestText(RecursionLimit + 1)
\* an echo that json.loads can scan and whose echo_response json.dumps cannot encode
DeepEchoMsg ==
    <<LB, Key("type"), StrTok("echo"), CM, Key("a")>>
        \o (IF RecursionLimit > 1 THEN NestText(RecursionLimit - 1) ELSE <<Tok("num", "1")>>)
        \o <<RB>>

SamplePayloads == {PingMsg, TextMsg, DeepMsg, DeepEchoMsg}

\* the payloads the message loops are fed
DispatchPayloads == {PingMsg, DeepMsg, DeepEchoMsg}


\* ------------------------------------------------------------------ state
VARIABLES
    impl,                \* which program runs: "manager" or "server"
    feed,                \* the payloads the peers may send
    received,            \* inbound messages dispatched so far
    transport,           \* per handle: "connecting", "open" or "closed"
    pc,                  \* per handle: where its endpoint coroutine is suspended
    active_connections,  \* WebSocketManager.active_connections
    connected_clients,   \* WebSocketServer.connected_clients
    message,             \* per handle: the payload being handled (<<>> when none)
    out,                 \* per handle: the text of the send awaited (<<>> when none)
    inflight,            \* per handle: handler calls that have not ended
    attempts,            \* per handle: reply sends started for the last message
    lastSend,            \* per handle: the last reply send: "none", "ok", "failed", or
                         \* "unsent" (json.dumps raised, send_text was not called)
    replyTo,             \* per handle: the handles its reply sends were addressed to
    caught,              \* per handle: the catch-all handled the last message
    raised,              \* per handle: the handler raised to its caller
    bpc,                 \* per broadcast: "idle", "iter" (a send awaited), "done", "raised"
    snap,                \* per broadcast: the copy of the membership it iterates
    startSet,            \* per broadcast: the membership when it was called
    visited,             \* per broadcast: the handles whose send has ended
    disconnected,        \* per broadcast: broadcast's list `disconnected`
    delivered,           \* per broadcast: the handles that were sent the payload
    sends,               \* per broadcast: sends attempted
    audit,               \* whether the run records the stale sends (fixed in a run)
    stale,               \* per broadcast, in a run that records them: the handles that
                         \* were already out of the registry when it sent to them
    report,              \* per broadcast, once it returned: the sends it attempted,
                         \* and how many succeeded and failed
    spmTarget,           \* send_personal_message: the handle of the call (0: no call)
    spmState             \* "idle", "sending", "sent", "failed", "raised"

connVars == <<transport, pc, message, out, inflight, attempts, lastSend, replyTo,
              caught, raised>>
bcastVars == <<bpc, snap, startSet, visited, disconnected, delivered, sends, audit,
              stale, report>>
spmVars == <<spmTarget, spmState>>
vars == <<impl, feed, received, active_connections, connected_clients, connVars,
          bcastVars, spmVars>>

NoReport == [attempted |-> 0, succeeded |-> 0, failed |-> 0]

InitConns ==
    /\ transport = [c \in Conns |-> "connecting"]
    /\ pc = [c \in Conns |-> "new"]
    /\ message = [c \in Conns |-> <<>>]
    /\ out = [c \in Conns |-> <<>>]
    /\ inflight = [c \in Conns |-> 0]
    /\ attempts = [c \in Conns |-> 0]
    /\ lastSend = [c \in Conns |-> "none"]
    /\ replyTo = [c \in Conns |-> {}]
    /\ caught = [c \in Conns |-> FALSE]
    /\ raised = [c \in Conns |-> FALSE]

InitBcasts ==
    /\ bpc = [b \in Bcasts |-> "idle"]
    /\ snap = [b \in Bcasts |-> {}]
    /\ startSet = [b \in Bcasts |-> {}]
    /\ visited = [b \in Bcasts |-> {}]
    /\ disconnected = [b \in Bcasts |-> {}]
    /\ delivered = [b \in Bcasts |-> {}]
    /\ sends = [b \in Bcasts |-> 0]
    /\ audit = FALSE
    /\ stale = [b \in Bcasts |-> {}]
    /\ report = [b \in Bcasts |-> NoReport]

\* __init__ of either class: an empty registry, no connection yet
Init ==
    /\ impl \in {"manager", "server"}
    /\ feed = DispatchPayloads
    /\ received = 0
    /\ active_connections = {}
    /\ connected_clients = {}
    /\ InitConns
    /\ InitBcasts
    /\ spmTarget = 0
    /\ spmState = "idle"

\* ------------------------------------------------------------ environment
\* Handles are numbered in their order of arrival and broadcast calls in the
\* order they are made: handle c arrives after handle c - 1.
Arrived(c) == IF c = 0 THEN TRUE ELSE pc[c] # "new"
Called(b) == IF b = 0 THEN TRUE ELSE bpc[b] # "idle"

\* a send on the handle succeeds only on an accepted transport the peer has not closed
CanSend(c) == transport[c] = "open"

\* the peer closes (or loses) the connection
PeerClose(c) ==
    /\ pc[c] \notin {"new", "end"}
    /\ transport[c] # "closed"
    /\ transport' = [transport EXCEPT ![c] = "closed"]
    /\ UNCHANGED <<impl, feed, received, active_connections, connected_clients, pc, message,
                   out, inflight, attempts, lastSend, replyTo, caught, raised, bcastVars,
                   spmVars>>

\* ------------------------------------------------------- WebSocketManager
\* mutant: the handle is removed when present and put back when absent
discard_toggle(registry, websocket) ==
    IF websocket \in registry THEN registry \ {websocket} ELSE registry \cup {websocket}

\* set.discard(websocket)
discard(registry, websocket) == registry \ {websocket}

\* mutant: disconnect leaves the set as it is
disconnect_keeps(websocket) == active_connections' = active_connections

\* WebSocketManager.disconnect
disconnect(websocket) == active_connections' = discard(active_connections, websocket)

\* the handle a reply is sent on: the `websocket` the handler was called with
ReplyTarget(c) == c

\* mutant: the loop hands the next message to a handler task without awaiting it
LoopReadyDetached(c) == pc[c] \in {"recv", "send", "send_err"}

\* the endpoint loop awaits the handler before it awaits the next message
LoopReady(c) == pc[c] = "recv"

\* mutant: connect adds the handle before it awaits the accept
before_accept_adds(registry, websocket) == registry \cup {websocket}

\* the registry when connect awaits the accept: the add comes after it
before_accept(registry, websocket) == registry

\* connect, up to `await websocket.accept()`
connect_accept(c) ==
    /\ impl = "manager"
    /\ pc[c] = "new"
    /\ Arrived(c - 1)
    /\ pc' = [pc EXCEPT ![c] = "accepting"]
    /\ active_connections' = before_accept(active_connections, c)
    /\ UNCHANGED <<impl, feed, received, connected_clients, transport,
                   message, out, inflight, attempts, lastSend, replyTo, caught, raised,
                   bcastVars, spmVars>>

\* connect, after the accept: registers the handle; when the accept raised
\* (the peer is gone) the exception ends the endpoint and nothing is registered
connect_done(c) ==
    /\ impl = "manager"
    /\ pc[c] = "accepting"
    /\ IF transport[c] = "connecting"
       THEN /\ transport' = [transport EXCEPT ![c] = "open"]
            /\ active_connections' = active_connections \cup {c}
            /\ pc' = [pc EXCEPT ![c] = "recv"]
       ELSE /\ pc' = [pc EXCEPT ![c] = "end"]
            /\ UNCHANGED <<transport, active_connections>>
    /\ UNCHANGED <<impl, feed, received, connected_clients, message, out, inflight,
                   attempts, lastSend, replyTo, caught, raised, bcastVars, spmVars>>

\* receive_text returns m and handle_message runs up to the await of the
\* reply's send_text; when json.dumps raises, _send_response logs it and
\* handle_message returns without a send
handle_message(c, m) ==
    /\ impl = "manager"
    /\ LoopReady(c)
    /\ CanSend(c)
    /\ received < MaxMsgs
    /\ received' = received + 1
    /\ LET h == handle_message_response(m)
           d == dumps(h.data)
       IN /\ caught' = [caught EXCEPT ![c] = h.fault]
          /\ IF d.st = "ok"
             THEN /\ out' = [out EXCEPT ![c] = d.text]
                  /\ lastSend' = [lastSend EXCEPT ![c] = "none"]
                  /\ message' = [message EXCEPT ![c] = m]
                  /\ pc' = [pc EXCEPT ![c] = "send"]
                  /\ inflight' = [inflight EXCEPT ![c] = @ + 1]
                  /\ attempts' = [attempts EXCEPT ![c] = 1]
                  /\ replyTo' = [replyTo EXCEPT ![c] = {ReplyTarget(c)}]
             ELSE /\ out' = [out EXCEPT ![c] = <<>>]
                  /\ message' = [message EXCEPT ![c] = <<>>]
                  /\ attempts' = [attempts EXCEPT ![c] = 0]
                  /\ replyTo' = [replyTo EXCEPT ![c] = {}]
                  /\ lastSend' = [lastSend EXCEPT ![c] = "unsent"]
                  /\ UNCHANGED <<pc, inflight>>
    /\ UNCHANGED <<impl, feed, active_connections, connected_clients, transport, raised,
                   bcastVars, spmVars>>

\* _send_response: the awaited send_text ends; a failure is logged and
\* handle_message returns
send_response_done(c) ==
    /\ impl = "manager"
    /\ pc[c] = "send"
    /\ lastSend' = [lastSend EXCEPT ![c] = IF CanSend(c) THEN "ok" ELSE "failed"]
    /\ out' = [out EXCEPT ![c] = <<>>]
    /\ message' = [message EXCEPT ![c] = <<>>]
    /\ pc' = [pc EXCEPT ![c] = "recv"]
    /\ inflight' = [inflight EXCEPT ![c] = @ - 1]
    /\ UNCHANGED <<impl, feed, received, active_connections, connected_clients, transport,
                   attempts, replyTo, caught, raised, bcastVars, spmVars>>

\* receive_text raises WebSocketDisconnect: the endpoint calls manager.disconnect;
\* the records of the connection's last message go with the connection
endpoint_disconnect(c) ==
    /\ impl = "manager"
    /\ pc[c] = "recv"
    /\ transport[c] = "closed"
    /\ disconnect(c)
    /\ pc' = [pc EXCEPT ![c] = "end"]
    /\ attempts' = [attempts EXCEPT ![c] = 0]
    /\ lastSend' = [lastSend EXCEPT ![c] = "none"]
    /\ replyTo' = [replyTo EXCEPT ![c] = {}]
    /\ caught' = [caught EXCEPT ![c] = FALSE]
    /\ UNCHANGED <<impl, feed, received, connected_clients, transport, message, out,
                   inflight, raised, bcastVars, spmVars>>

\* ------------------------------------------------------- WebSocketServer
\* handle_client up to its first await: registers the (already accepted) handle
handle_client(c) ==
    /\ impl = "server"
    /\ pc[c] = "new"
    /\ Arrived(c - 1)
    /\ transport' = [transport EXCEPT ![c] = "open"]
    /\ connected_clients' = connected_clients \cup {c}
    /\ pc' = [pc EXCEPT ![c] = "recv"]
    /\ UNCHANGED <<impl, feed, received, active_connections, message, out, inflight,
                   attempts, lastSend, replyTo, caught, raised, bcastVars, spmVars>>

\* `async for` yields m and process_message runs up to its first awaited send:
\* the acknowledgment, or the error response when json.loads raised
process_message(c, m) ==
    /\ impl = "server"
    /\ LoopReady(c)
    /\ CanSend(c)
    /\ received < MaxMsgs
    /\ received' = received + 1
    /\ LET fault == loads(m).st = "deep"
           resp == IF fault THEN process_message_error(RecursionError)
                   ELSE process_message_ack
       IN /\ caught' = [caught EXCEPT ![c] = fault]
          /\ out' = [out EXCEPT ![c] = dumps(resp).text]
          /\ pc' = [pc EXCEPT ![c] = IF fault THEN "send_err" ELSE "send"]
    /\ message' = [message EXCEPT ![c] = m]
    /\ inflight' = [inflight EXCEPT ![c] = @ + 1]
    /\ attempts' = [attempts EXCEPT ![c] = 1]
    /\ replyTo' = [replyTo EXCEPT ![c] = {ReplyTarget(c)}]
    /\ lastSend' = [lastSend EXCEPT ![c] = "none"]
    /\ UNCHANGED <<impl, feed, active_connections, connected_clients, transport, raised,
                   bcastVars, spmVars>>

\* the acknowledgment's send ends: process_message returns, or the send raised
\* and the except block starts the send of the error response
process_message_ack_done(c) ==
    /\ impl = "server"
    /\ pc[c] = "send"
    /\ IF CanSend(c)
       THEN /\ lastSend' = [lastSend EXCEPT ![c] = "ok"]
            /\ out' = [out EXCEPT ![c] = <<>>]
            /\ message' = [message EXCEPT ![c] = <<>>]
            /\ pc' = [pc EXCEPT ![c] = "recv"]
            /\ inflight' = [inflight EXCEPT ![c] = @ - 1]
            /\ UNCHANGED <<attempts, replyTo, caught>>
       ELSE /\ lastSend' = [lastSend EXCEPT ![c] = "failed"]
            /\ out' = [out EXCEPT ![c] = dumps(process_message_error("connection closed")).text]
            /\ pc' = [pc EXCEPT ![c] = "send_err"]
            /\ attempts' = [attempts EXCEPT ![c] = @ + 1]
            /\ replyTo' = [replyTo EXCEPT ![c] = @ \cup {ReplyTarget(c)}]
            /\ caught' = [caught EXCEPT ![c] = TRUE]
            /\ UNCHANGED <<message, inflight>>
    /\ UNCHANGED <<impl, feed, received, active_connections, connected_clients, transport,
                   raised, bcastVars, spmVars>>

\* the error response's send ends: process_message returns, or the send raised
\* inside the except block: the exception leaves process_message, handle_client
\* catches it and its finally block discards the handle
process_message_err_done(c) ==
    /\ impl = "server"
    /\ pc[c] = "send_err"
    /\ out' = [out EXCEPT ![c] = <<>>]
    /\ message' = [message EXCEPT ![c] = <<>>]
    /\ inflight' = [inflight EXCEPT ![c] = @ - 1]
    /\ IF CanSend(c)
       THEN /\ lastSend' = [lastSend EXCEPT ![c] = "ok"]
            /\ pc' = [pc EXCEPT ![c] = "recv"]
            /\ UNCHANGED <<raised, connected_clients>>
       ELSE /\ lastSend' = [lastSend EXCEPT ![c] = "failed"]
            /\ raised' = [raised EXCEPT ![c] = TRUE]
            /\ connected_clients' = discard(connected_clients, c)
            /\ pc' = [pc EXCEPT ![c] = "end"]
    /\ UNCHANGED <<impl, feed, received, active_connections, transport, attempts, replyTo,
                   caught, bcastVars, spmVars>>

\* `async for` ends (ConnectionClosed): the finally block discards the handle;
\* the records of the connection's last message go with the connection
handle_client_end(c) ==
    /\ impl = "server"
    /\ pc[c] = "recv"
    /\ transport[c] = "closed"
    /\ connected_clients' = discard(connected_clients, c)
    /\ pc' = [pc EXCEPT ![c] = "end"]
    /\ attempts' = [attempts EXCEPT ![c] = 0]
    /\ lastSend' = [lastSend EXCEPT ![c] = "none"]
    /\ replyTo' = [replyTo EXCEPT ![c] = {}]
    /\ caught' = [caught EXCEPT ![c] = FALSE]
    /\ UNCHANGED <<impl, feed, received, active_connections, transport, message, out,
                   inflight, raised, bcastVars, spmVars>>

\* ------------------------------------------------- other exits of the loops
\* receive_text or handle_message raises something other than
\* WebSocketDisconnect: the exception leaves the endpoint, whose only except
\* clause does not match, so disconnect is not called; the server closes the
\* connection of the failed endpoint
endpoint_error(c) ==
    /\ impl = "manager"
    /\ pc[c] = "recv"
    /\ pc' = [pc EXCEPT ![c] = "end"]
    /\ transport' = [transport EXCEPT ![c] = "closed"]
    /\ attempts' = [attempts EXCEPT ![c] = 0]
    /\ lastSend' = [lastSend EXCEPT ![c] = "none"]
    /\ replyTo' = [replyTo EXCEPT ![c] = {}]
    /\ caught' = [caught EXCEPT ![c] = FALSE]
    /\ UNCHANGED <<impl, feed, received, active_connections, connected_clients, message,
                   out, inflight, raised, bcastVars, spmVars>>

\* the `async for` of handle_client raises something other than
\* ConnectionClosed: `except Exception` logs it and the finally block
\* discards the handle
handle_client_error(c) ==
    /\ impl = "server"
    /\ pc[c] = "recv"
    /\ connected_clients' = discard(connected_clients, c)
    /\ pc' = [pc EXCEPT ![c] = "end"]
    /\ transport' = [transport EXCEPT ![c] = "closed"]
    /\ attempts' = [attempts EXCEPT ![c] = 0]
    /\ lastSend' = [lastSend EXCEPT ![c] = "none"]
    /\ replyTo' = [replyTo EXCEPT ![c] = {}]
    /\ caught' = [caught EXCEPT ![c] = FALSE]
    /\ UNCHANGED <<impl, feed, received, active_connections, message, out, inflight,
                   raised, bcastVars, spmVars>>

\* ------------------------------------------------------------- broadcasts
\* `if not self.active_connections`
NoConnections(registry) == registry = {}

\* mutant: broadcast on an empty registry raises instead of returning
EmptyReturnRaises == "raised"

\* broadcast on an empty registry: logs a warning and returns
EmptyReturn == "done"

\* mutant: the loop iterates the live set instead of a copy
IterationSetLive(b) == active_connections

\* what broadcast's for loop iterates: the copy taken when the loop starts
IterationSet(b) == snap[b]

\* mutant: the loop ends after its first send
RemainingFirstOnly(source, done, failed) == IF done = {} THEN source ELSE {}

\* mutant: the first failed send ends the loop
RemainingAbort(source, done, failed) == IF failed # {} THEN {} ELSE source \ done

\* the handles the loop has still to send to: a failed send is recorded and
\* the loop goes on
Remaining(source, done, failed) == source \ done

\* mutant: a failed send is logged and not recorded
append_drops(failed, connection) == failed

\* disconnected.append(connection)
append(failed, connection) == failed \cup {connection}

\* the stale sends of a broadcast after its send to c, in a run that records them
StaleAfter(b, c, registry) ==
    IF audit /\ c \notin registry THEN stale[b] \cup {c} ELSE stale[b]

\* mutant: the cleanup loop removes nothing
cleanup_keeps(registry, failed) == registry

\* mutant: the cleanup empties the registry
cleanup_clears(registry, failed) == IF failed = {} THEN registry ELSE {}

\* broadcast's cleanup loop: disconnect(conn) for every conn in disconnected
cleanup(registry, failed) == registry \ failed

\* WebSocketManager.broadcast up to its first await: returns at once on an
\* empty registry, else copies the membership and starts the first send
broadcast_start(b) ==
    /\ impl = "manager"
    /\ bpc[b] = "idle"
    /\ Called(b - 1)
    /\ IF NoConnections(active_connections)
       THEN /\ bpc' = [bpc EXCEPT ![b] = EmptyReturn]
            /\ UNCHANGED <<snap, startSet>>
       ELSE /\ bpc' = [bpc EXCEPT ![b] = "iter"]
            /\ snap' = [snap EXCEPT ![b] = active_connections]
            /\ startSet' = [startSet EXCEPT ![b] = active_connections]
    /\ UNCHANGED <<impl, feed, received, active_connections, connected_clients, connVars,
                   visited, disconnected, delivered, sends, audit, stale, report, spmVars>>

\* the send to one handle of the loop ends: a failure appends the handle to
\* `disconnected`; after the last handle the cleanup loop runs and broadcast
\* returns (its locals are gone, the report says what it did)
broadcast_send(b, c) ==
    /\ impl = "manager"
    /\ bpc[b] = "iter"
    /\ c \in Remaining(IterationSet(b), visited[b], disconnected[b])
    /\ stale' = [stale EXCEPT ![b] = StaleAfter(b, c, active_connections)]
    /\ LET failed == IF CanSend(c) THEN disconnected[b] ELSE append(disconnected[b], c)
           got == IF CanSend(c) THEN delivered[b] \cup {c} ELSE delivered[b]
           done == visited[b] \cup {c}
       IN IF Remaining(IterationSet(b), done, failed) = {}
          THEN /\ active_connections' = cleanup(active_connections, failed)
               /\ bpc' = [bpc EXCEPT ![b] = "done"]
               /\ report' = [report EXCEPT ![b] =
                                [attempted |-> sends[b] + 1,
                                 succeeded |-> Cardinality(got),
                                 failed |-> Cardinality(failed)]]
               /\ snap' = [snap EXCEPT ![b] = {}]
               /\ startSet' = [startSet EXCEPT ![b] = {}]
               /\ visited' = [visited EXCEPT ![b] = {}]
               /\ disconnected' = [disconnected EXCEPT ![b] = {}]
               /\ delivered' = [delivered EXCEPT ![b] = {}]
               /\ sends' = [sends EXCEPT ![b] = 0]
          ELSE /\ visited' = [visited EXCEPT ![b] = done]
               /\ disconnected' = [disconnected EXCEPT ![b] = failed]
               /\ delivered' = [delivered EXCEPT ![b] = got]
               /\ sends' = [sends EXCEPT ![b] = @ + 1]
               /\ UNCHANGED <<active_connections, bpc, report, snap, startSet>>
    /\ UNCHANGED <<impl, feed, received, connected_clients, connVars, audit, spmVars>>

\* what broadcast_message gathers: one send per client of the list
\* comprehension, built without an await when gather is called
GatherSet(b) == snap[b]

\* WebSocketServer.broadcast_message up to the await of gather
broadcast_message_start(b) ==
    /\ impl = "server"
    /\ bpc[b] = "idle"
    /\ Called(b - 1)
    /\ IF connected_clients # {}
       THEN /\ bpc' = [bpc EXCEPT ![b] = "iter"]
            /\ snap' = [snap EXCEPT ![b] = connected_clients]
            /\ startSet' = [startSet EXCEPT ![b] = connected_clients]
       ELSE /\ bpc' = [bpc EXCEPT ![b] = "done"]
            /\ UNCHANGED <<snap, startSet>>
    /\ UNCHANGED <<impl, feed, received, active_connections, connected_clients, connVars,
                   visited, disconnected, delivered, sends, audit, stale, report, spmVars>>

\* one gathered send ends (in any order); return_exceptions=True keeps a
\* failure as a result; gather returns after the last one and the results
\* are dropped: nothing is removed from connected_clients
broadcast_message_send(b, c) ==
    /\ impl = "server"
    /\ bpc[b] = "iter"
    /\ c \in GatherSet(b) \ visited[b]
    /\ stale' = [stale EXCEPT ![b] = StaleAfter(b, c, connected_clients)]
    /\ LET got == IF CanSend(c) THEN delivered[b] \cup {c} ELSE delivered[b]
           done == visited[b] \cup {c}
       IN IF GatherSet(b) \ done = {}
          THEN /\ bpc' = [bpc EXCEPT ![b] = "done"]
               /\ report' = [report EXCEPT ![b] =
                                [attempted |-> sends[b] + 1,
                                 succeeded |-> Cardinality(got),
                                 failed |-> sends[b] + 1 - Cardinality(got)]]
               /\ snap' = [snap EXCEPT ![b] = {}]
               /\ startSet' = [startSet EXCEPT ![b] = {}]
               /\ visited' = [visited EXCEPT ![b] = {}]
               /\ delivered' = [delivered EXCEPT ![b] = {}]
               /\ sends' = [sends EXCEPT ![b] = 0]
          ELSE /\ visited' = [visited EXCEPT ![b] = done]
               /\ delivered' = [delivered EXCEPT ![b] = got]
               /\ sends' = [sends EXCEPT ![b] = @ + 1]
               /\ UNCHANGED <<bpc, report, snap, startSet>>
    /\ UNCHANGED <<impl, feed, received, active_connections, connected_clients, connVars,
                   disconnected, audit, spmVars>>

\* ------------------------------------------------- send_personal_message
\* send_personal_message(message, c) up to the await of send_text
send_personal_message(c) ==
    /\ impl = "manager"
    /\ spmState = "idle"
    /\ pc[c] # "new"
    /\ spmTarget' = c
    /\ spmState' = "sending"
    /\ UNCHANGED <<impl, feed, received, active_connections, connected_clients, connVars,
                   bcastVars>>

\* the send ends: on failure the except block logs it and disconnects the handle
send_personal_message_done ==
    /\ impl = "manager"
    /\ spmState = "sending"
    /\ IF CanSend(spmTarget)
       THEN /\ spmState' = "sent"
            /\ UNCHANGED active_connections
       ELSE /\ spmState' = "failed"
            /\ disconnect(spmTarget)
    /\ UNCHANGED <<impl, feed, received, connected_clients, connVars, bcastVars, spmTarget>>

\* ---------------------------------------------------------- specifications
\* the connections' lifecycle: arrival, registration, peer close, removal
Lifecycle ==
    \/ \E c \in Conns : PeerClose(c)
    \/ \E c \in Conns : connect_accept(c)
    \/ \E c \in Conns : connect_done(c)
    \/ \E c \in Conns : endpoint_disconnect(c)
    \/ \E c \in Conns : handle_client(c)
    \/ \E c \in Conns : handle_client_end(c)

\* the per-connection message loops
Dispatch ==
    \/ \E c \in Conns : \E m \in feed : handle_message(c, m)
    \/ \E c \in Conns : send_response_done(c)
    \/ \E c \in Conns : \E m \in feed : process_message(c, m)
    \/ \E c \in Conns : process_message_ack_done(c)
    \/ \E c \in Conns : process_message_err_done(c)

\* the broadcast calls
Broadcast ==
    \/ \E b \in Bcasts : broadcast_start(b)
    \/ \E b \in Bcasts : \E c \in Conns : broadcast_send(b, c)
    \/ \E b \in Bcasts : broadcast_message_start(b)
    \/ \E b \in Bcasts : \E c \in Conns : broadcast_message_send(b, c)

\* the single-target send
Personal ==
    \/ \E c \in Conns : send_personal_message(c)
    \/ send_personal_message_done

\* the exits of the message loops by an exception that is not a disconnect
LoopError ==
    \/ \E c \in Conns : endpoint_error(c)
    \/ \E c \in Conns : handle_client_error(c)

\* the whole program
Next == Lifecycle \/ Dispatch \/ Broadcast \/ Personal \/ LoopError
Spec == Init /\ [][Next]_vars

\* Broadcasts against the connections' lifecycle.  The message loops and the
\* single-target send are left out: they read no broadcast state, and what
\* they do to the registry (the removal of a handle whose transport is closed)
\* the lifecycle's removals do too.
NextBroadcast == Lifecycle \/ Broadcast
SpecBroadcast == Init /\ [][NextBroadcast]_vars

\* The message loops against the connections' lifecycle and one broadcast call.
NextDispatch ==
    \/ Lifecycle
    \/ Dispatch
    \/ broadcast_start(1)
    \/ \E c \in Conns : broadcast_send(1, c)
    \/ broadcast_message_start(1)
    \/ \E c \in Conns : broadcast_message_send(1, c)
SpecDispatch == Init /\ [][NextDispatch]_vars

\* The single-target send against the connections' lifecycle.
NextPersonal == Lifecycle \/ Personal
SpecPersonal == Init /\ [][NextPersonal]_vars

\* The message loops with every exit they have, the loops' exits by an
\* exception included.  The event loop resumes every coroutine whose await
\* has completed: a pending accept, a pending reply send and a receive on a
\* closed transport each take their step.  (The other specifications leave
\* the exits by an exception out: no broadcast and no handler reads whether a
\* loop has ended.)
NextLive == Lifecycle \/ Dispatch \/ LoopError
LoopFairness ==
    \A c \in Conns :
       /\ WF_vars(connect_done(c))
       /\ WF_vars(send_response_done(c))
       /\ WF_vars(endpoint_disconnect(c))
       /\ WF_vars(process_message_ack_done(c))
       /\ WF_vars(process_message_err_done(c))
       /\ WF_vars(handle_client_end(c))
SpecLive == Init /\ [][NextLive]_vars /\ LoopFairness

\* Two concurrent broadcasts against the connections' lifecycle, every send
\* of a broadcast eventually completing or failing.
TwoBcasts == {b \in Bcasts : b <= 2}
NextTerminate ==
    \/ Lifecycle
    \/ \E b \in TwoBcasts : broadcast_start(b)
    \/ \E b \in TwoBcasts : \E c \in Conns : broadcast_send(b, c)
    \/ \E b \in TwoBcasts : broadcast_message_start(b)
    \/ \E b \in TwoBcasts : \E c \in Conns : broadcast_message_send(b, c)
SendFairness ==
    \A b \in TwoBcasts :
       /\ WF_vars(\E c \in Conns : broadcast_send(b, c))
       /\ WF_vars(\E c \in Conns : broadcast_message_send(b, c))
SpecTerminate == Init /\ [][NextTerminate]_vars /\ SendFairness

\* The manager with everything that runs concurrently in it: the connections'
\* lifecycle, the message loops (fed pings) and two concurrent broadcasts.
InitConcurrent ==
    /\ impl = "manager"
    /\ feed = {PingMsg}
    /\ received = 0
    /\ active_connections = {}
    /\ connected_clients = {}
    /\ InitConns
    /\ InitBcasts
    /\ spmTarget = 0
    /\ spmState = "idle"

NextConcurrent ==
    \/ \E c \in Conns : PeerClose(c)
    \/ \E c \in Conns : connect_accept(c)
    \/ \E c \in Conns : connect_done(c)
    \/ \E c \in Conns : endpoint_disconnect(c)
    \/ \E c \in Conns : \E m \in feed : handle_message(c, m)
    \/ \E c \in Conns : send_response_done(c)
    \/ \E b \in TwoBcasts : broadcast_start(b)
    \/ \E b \in TwoBcasts : \E c \in Conns : broadcast_send(b, c)
SpecConcurrent == InitConcurrent /\ [][NextConcurrent]_vars

\* One broadcast of the manager against the connections' lifecycle, in a run
\* that records the sends to handles already out of the registry.
InitStale ==
    /\ impl = "manager"
    /\ feed = DispatchPayloads
    /\ received = 0
    /\ active_connections = {}
    /\ connected_clients = {}
    /\ InitConns
    /\ bpc = [b \in Bcasts |-> "idle"]
    /\ snap = [b \in Bcasts |-> {}]
    /\ startSet = [b \in Bcasts |-> {}]
    /\ visited = [b \in Bcasts |-> {}]
    /\ disconnected = [b \in Bcasts |-> {}]
    /\ delivered = [b \in Bcasts |-> {}]
    /\ sends = [b \in Bcasts |-> 0]
    /\ audit = TRUE
    /\ stale = [b \in Bcasts |-> {}]
    /\ report = [b \in Bcasts |-> NoReport]
    /\ spmTarget = 0
    /\ spmState = "idle"

NextStale ==
    \/ \E c \in Conns : PeerClose(c)
    \/ \E c \in Conns : connect_accept(c)
    \/ \E c \in Conns : connect_done(c)
    \/ \E c \in Conns : endpoint_disconnect(c)
    \/ broadcast_start(1)
    \/ \E c \in Conns : broadcast_send(1, c)
SpecStale == InitStale /\ [][NextStale]_vars

\* handle_message as a function of the payload: one registered connection of
\* the manager and one payload out of every text of at most MaxLen tokens
\* and the sample payloads
InitClassify ==
    /\ impl = "manager"
    /\ feed \in {{p} : p \in AllPayloads \cup SamplePayloads \cup {EchoMsg}}
    /\ received = MaxMsgs - 1
    /\ active_connections = {1}
    /\ connected_clients = {}
    /\ transport = [c \in Conns |-> IF c = 1 THEN "open" ELSE "connecting"]
    /\ pc = [c \in Conns |-> IF c = 1 THEN "recv" ELSE "new"]
    /\ message = [c \in Conns |-> <<>>]
    /\ out = [c \in Conns |-> <<>>]
    /\ inflight = [c \in Conns |-> 0]
    /\ attempts = [c \in Conns |-> 0]
    /\ lastSend = [c \in Conns |-> "none"]
    /\ replyTo = [c \in Conns |-> {}]
    /\ caught = [c \in Conns |-> FALSE]
    /\ raised = [c \in Conns |-> FALSE]
    /\ InitBcasts
    /\ spmTarget = 0
    /\ spmState = "idle"

NextClassify ==
    \/ \E m \in feed : handle_message(1, m)
    \/ send_response_done(1)
SpecClassify == InitClassify /\ [][NextClassify]_vars

\* ------------------------------------------------------------ properties
\* the registry of the program that runs
Registry == IF impl = "manager" THEN active_connections ELSE connected_clients

\* C1: WebSocketManager.broadcast sends the payload to every handle of its
\* snapshot whose send does not fail, whatever sends fail: a failed send only
\* records the handle and the pass goes on, nothing is removed during the
\* pass, and the step that ends the pass (the last send and the cleanup
\* loop) removes exactly the failed handles from active_connections.
C1_Step(b) ==
    /\ delivered[b] = visited[b] \ disconnected[b]
    /\ (bpc'[b] = "iter" /\ visited'[b] # visited[b]) =>
          \E c \in snap[b] \ visited[b] :
             /\ visited'[b] = visited[b] \cup {c}
             /\ delivered'[b] = IF CanSend(c) THEN delivered[b] \cup {c} ELSE delivered[b]
             /\ disconnected'[b] = IF CanSend(c) THEN disconnected[b]
                                   ELSE disconnected[b] \cup {c}
             /\ active_connections' = active_connections
    /\ bpc'[b] = "done" =>
          \E c \in snap[b] :
             LET failed == IF CanSend(c) THEN disconnected[b] ELSE disconnected[b] \cup {c}
             IN /\ snap[b] \ visited[b] = {c}
                /\ active_connections' = active_connections \ failed
                /\ report'[b] = [attempted |-> Cardinality(snap[b]),
                                 succeeded |-> Cardinality(snap[b] \ failed),
                                 failed |-> Cardinality(failed)]

C1_BroadcastSkipsAndRemovesFailed ==
    [][\A b \in Bcasts : (impl = "manager" /\ bpc[b] = "iter") => C1_Step(b)]_vars

\* a broadcast of the manager has returned after a pass in which a send
\* failed and another was delivered
C1_Witness ==
    /\ impl = "manager"
    /\ \E b \in Bcasts :
          bpc[b] = "done" /\ report[b].failed >= 1 /\ report[b].succeeded >= 1

\* C2: a broadcast (of either program) attempts exactly the handles that were
\* registered when it was called, each once, whatever connects and
\* disconnects happen at its await points: the set it iterates does not
\* change while it runs, every send goes to a handle of that set not sent to
\* before, and it returns when that set is exhausted.
C2_Step(b) ==
    /\ (bpc[b] = "idle" /\ bpc'[b] = "iter") => startSet'[b] = Registry
    /\ bpc'[b] = "iter" =>
          /\ snap'[b] = startSet'[b]
          /\ visited'[b] \subseteq startSet'[b]
          /\ sends'[b] = Cardinality(visited'[b])
    /\ (bpc[b] = "iter" /\ bpc'[b] = "iter") =>
          /\ startSet'[b] = startSet[b]
          /\ visited[b] \subseteq visited'[b]
          /\ Cardinality(visited'[b] \ visited[b]) <= 1
    /\ (bpc[b] = "iter" /\ bpc'[b] = "done") =>
          /\ \E c \in startSet[b] \ visited[b] : visited[b] \cup {c} = startSet[b]
          /\ report'[b].attempted = Cardinality(startSet[b])

C2_BroadcastIteratesSnapshot == [][\A b \in Bcasts : C2_Step(b)]_vars

\* a broadcast is running while a handle registered after its snapshot is in
\* the registry and a handle of its snapshot, still to be sent to, is not
C2_Witness ==
    \E b \in Bcasts :
       /\ bpc[b] = "iter"
       /\ Registry \ startSet[b] # {}
       /\ (startSet[b] \ visited[b]) \ Registry # {}

\* C10: a broadcast (of either program) called on an empty registry returns
\* in the same step, without an error, having attempted no send, and leaves
\* the registry empty.
C10_Step(b) ==
    (bpc[b] = "idle" /\ bpc'[b] # "idle" /\ Registry = {}) =>
        /\ bpc'[b] = "done"
        /\ report'[b].attempted = 0
        /\ sends'[b] = 0
        /\ delivered'[b] = {}
        /\ active_connections' = {}
        /\ connected_clients' = {}

C10_BroadcastOnEmptyRegistry == [][\A b \in Bcasts : C10_Step(b)]_vars

\* a broadcast has returned without having attempted a send: it was called
\* on an empty registry
C10_Witness == \E b \in Bcasts : bpc[b] = "done" /\ report[b].attempted = 0

\* the handler of handle c has returned from a message dispatched to it
Returned(c) == pc[c] \in {"recv", "end"} /\ lastSend[c] # "none"

\* C3 (as the specification states it): when the reply send of handle_message
\* has failed, the connection is out of active_connections once
\* handle_message has returned.
C3_FailedReplyRemoves ==
    \A c \in Conns :
       (impl = "manager" /\ pc[c] = "recv" /\ lastSend[c] = "failed")
          => c \notin active_connections

\* C4: when the send of send_personal_message ends, a failed send has
\* removed the handle from active_connections and the call returns without
\* raising; a successful send leaves active_connections as it was.
C4_Step ==
    (spmState = "sending" /\ spmState' # "sending") =>
        IF CanSend(spmTarget)
        THEN spmState' = "sent" /\ active_connections' = active_connections
        ELSE /\ spmState' = "failed"
             /\ active_connections' = active_connections \ {spmTarget}

C4_PersonalSendSelfHeals == [][C4_Step]_vars

\* a send_personal_message to a registered handle failed: the handle is out of
\* the registry while its endpoint loop has not yet seen the disconnect
C4_Witness ==
    /\ spmState = "failed"
    /\ pc[spmTarget] = "recv"
    /\ spmTarget \notin active_connections

\* C5: on every connection at most one handler call is pending: the loop is
\* at its receive only when no handler call and no reply send of the
\* connection is pending, so the next message is dispatched only after the
\* reply to the previous one was sent or failed.
C5_SequentialPerConnection ==
    \A c \in Conns :
       /\ inflight[c] \in {0, 1}
       /\ inflight[c] = 1 <=> pc[c] \in {"send", "send_err"}
       /\ pc[c] \in {"recv", "end", "new", "accepting"} => out[c] = <<>>

\* one connection has taken every message of the run and the reply to its
\* last one is pending while a broadcast is under way
C5_Witness ==
    \E c \in Conns :
       /\ inflight[c] = 1
       /\ received = MaxMsgs
       /\ \A d \in Conns \ {c} : pc[d] = "new"
       /\ bpc[1] = "iter"

C7_NothingEscapes ==
    /\ \A c \in Conns : ~raised[c]
    /\ \A b \in Bcasts : bpc[b] # "raised"

\* the reply the classification of payload m calls for, read from the text sent
ReplyFollowsClassification(m, text) ==
    LET p == loads(m)
        r == loads(text).val
        status == Get(r, "status", NoneVal)
        type == Get(r, "type", NoneVal)
    IN IF p.st # "ok"
       THEN /\ status = StrVal("received")
            /\ Get(r, "message_length", NoneVal) = IntVal(TextLen(m))
       ELSE IF p.val.t = "dict"
       THEN LET message_type == Get(p.val, "type", StrVal("unknown")) IN
            IF message_type = StrVal("ping") THEN type = StrVal("pong")
            ELSE IF message_type = StrVal("echo")
            THEN /\ type = StrVal("echo_response")
                 /\ Get(r, "original_message", NoneVal) = p.val
            ELSE /\ status = StrVal("received")
                 /\ Get(r, "message_type", NoneVal) = message_type
       ELSE /\ status = StrVal("received")
            /\ Get(r, "data_type", NoneVal) = StrVal(p.val.t)

\* C8 (as the specification states it): for every payload handle_message
\* sends the reply its classification calls for.
C8_ReplyByClassification ==
    /\ lastSend[1] # "unsent"
    /\ pc[1] = "send" => ReplyFollowsClassification(message[1], out[1])

\* the part of C8 the code meets: the reply follows the classification for
\* every payload json.loads parses or rejects with JSONDecodeError and whose
\* reply json.dumps serialises
ReplyByClassificationUnlessFault ==
    (pc[1] = "send" /\ ~caught[1]) => ReplyFollowsClassification(message[1], out[1])

\* C9 (as the specification states it): a handler that has returned made
\* exactly one reply send, addressed to the originating connection, and the
\* reply was delivered when the sender's transport is intact.
C9_OneReplyToSender ==
    \A c \in Conns :
       /\ replyTo[c] \subseteq {c}
       /\ Returned(c) =>
             /\ attempts[c] = 1
             /\ transport[c] = "open" => lastSend[c] = "ok"

\* C11: removal is idempotent.  On every registry the programs reach,
\* discarding a handle twice gives what discarding it once gives, and
\* discarding an absent handle gives the registry back; and the step of
\* send_personal_message that disconnects a handle already out of
\* active_connections leaves active_connections as it was and does not raise.
C11_Idempotent(registry) ==
    \A c \in Conns :
       /\ discard(discard(registry, c), c) = discard(registry, c)
       /\ c \notin registry => discard(registry, c) = registry

C11_Step ==
    /\ C11_Idempotent(Registry)
    /\ C11_Idempotent(Registry')
    /\ (spmState = "sending" /\ spmState' # "sending"
          /\ spmTarget \notin active_connections) =>
          /\ active_connections' = active_connections
          /\ spmState' \in {"sent", "failed"}

C11_RemovalIdempotent == [][C11_Step]_vars

\* disconnect was applied twice to one handle: by send_personal_message's
\* except block and by the endpoint
C11_Witness ==
    /\ spmState = "failed"
    /\ pc[spmTarget] = "end"
    /\ transport[spmTarget] = "closed"
    /\ spmTarget \notin active_connections

\* C12 (as the specification states it): send_personal_message called with a
\* handle that is not in active_connections starts no send and returns
\* NotFoundError to its caller.
C12_Step ==
    (spmState = "idle" /\ spmState' # "idle" /\ spmTarget' \notin active_connections) =>
        /\ spmState' = "notfound"
        /\ UNCHANGED <<active_connections, connVars>>

C12_UnregisteredTargetNotFound == [][C12_Step]_vars

\* C13: when broadcast sends to a handle of its snapshot that is already out
\* of active_connections (closed and removed since the snapshot), the send
\* fails and is recorded like any failed send, broadcast does not raise, the
\* handles that remain are still sent to, and when broadcast returns the
\* handle is out of active_connections.
C13_Step(b) ==
    (bpc[b] = "iter" /\ (visited'[b] # visited[b] \/ bpc'[b] # "iter")) =>
        \E c \in snap[b] \ visited[b] :
           /\ \/ bpc'[b] = "iter" /\ visited'[b] = visited[b] \cup {c}
                                  /\ snap[b] \ visited'[b] # {}
              \/ bpc'[b] = "done" /\ snap[b] = visited[b] \cup {c}
           /\ c \notin active_connections =>
                 /\ ~CanSend(c)
                 /\ c \in stale'[b]
                 /\ bpc'[b] = "iter" =>
                       /\ disconnected'[b] = disconnected[b] \cup {c}
                       /\ active_connections' = active_connections
                 /\ bpc'[b] = "done" =>
                       report'[b].failed = Cardinality(disconnected[b] \cup {c})
           /\ bpc'[b] = "done" => stale'[b] \cap active_connections' = {}

C13_StaleHandleFailsCleanly == [][\A b \in Bcasts : C13_Step(b)]_vars

\* a broadcast has returned after a send to a handle that had been removed
\* since its snapshot and a send that was delivered
C13_Witness ==
    \E b \in Bcasts :
       /\ bpc[b] = "done"
       /\ stale[b] # {}
       /\ report[b].succeeded >= 1
       /\ stale[b] \cap active_connections = {}

\* C14 (as the specification states it): in every state a handle is in the
\* registry if and only if its transport is accepted and not closed.
C14_RegisteredIffEligible ==
    \A c \in Conns : c \in Registry <=> transport[c] = "open"

\* C14 (amended): in every state a handle whose transport is accepted and not
\* closed is in the registry, and a handle in the registry has had its accept
\* completed; a handle whose transport has closed may still be registered.
C14_EligibleIsRegistered ==
    \A c \in Conns :
       /\ transport[c] = "open" => c \in Registry
       /\ c \in Registry => /\ transport[c] \in {"open", "closed"}
                            /\ pc[c] \notin {"new", "accepting"}

\* a handle whose transport has closed is registered next to one that is eligible
C14_Witness ==
    \E c, d \in Conns :
       /\ c \in Registry /\ transport[c] = "closed"
       /\ d \in Registry /\ transport[d] = "open"

\* C15 (as the specification states it): a registered connection whose
\* transport has closed or whose message loop has ended is eventually out of
\* the registry.
C15_ClosedEventuallyRemoved ==
    \A c \in Conns :
       (c \in Registry /\ (transport[c] = "closed" \/ pc[c] = "end"))
          ~> (c \notin Registry)

\* C16 (as the specification states it): when broadcast_message returns, it
\* has attempted every client of its list and every client whose send failed
\* is out of connected_clients.
C16_Step(b) ==
    (impl = "server" /\ bpc[b] = "iter" /\ bpc'[b] = "done") =>
        \E c \in snap[b] \ visited[b] :
           LET failed == (visited[b] \ delivered[b]) \cup (IF CanSend(c) THEN {} ELSE {c})
           IN /\ snap[b] = visited[b] \cup {c}
              /\ report'[b].attempted = Cardinality(snap[b])
              /\ connected_clients' \cap failed = {}

C16_GatherRemovesFailed == [][\A b \in Bcasts : C16_Step(b)]_vars

\* C17: WebSocketManager.connect adds a handle to active_connections only in
\* the step in which its accept completes: a handle whose accept is pending
\* is in no registry and in no broadcast's snapshot, so no broadcast sends to
\* it, and a handle whose accept fails is not registered.
C17_Step(c) ==
    /\ pc[c] \in {"new", "accepting"} =>
          /\ c \notin active_connections
          /\ \A b \in Bcasts : c \notin snap[b] /\ c \notin visited[b]
    /\ (c \notin active_connections /\ c \in active_connections') =>
          /\ pc[c] = "accepting" /\ pc'[c] = "recv"
          /\ transport[c] = "connecting" /\ transport'[c] = "open"
    /\ (pc[c] = "accepting" /\ pc'[c] = "end") =>
          /\ transport[c] # "connecting"
          /\ c \notin active_connections'
    /\ pc[c] = "end" => pc'[c] = "end"

C17_RegisteredAfterAccept ==
    [][impl = "manager" => \A c \in Conns : C17_Step(c)]_vars

\* a broadcast is under way while the accept of a handle is pending
C17_Witness ==
    \E b \in Bcasts : \E c \in Conns :
       /\ bpc[b] = "iter"
       /\ pc[c] = "accepting"
       /\ c \notin snap[b]

\* C18: when every send eventually completes or fails, a broadcast that has
\* taken a snapshot of n handles eventually returns, having attempted n
\* sends (one per handle of the snapshot, by C2), whatever sends fail and
\* whatever connects and disconnects happen meanwhile.
C18_BroadcastTerminates ==
    \A b \in TwoBcasts : \A n \in 1..NumConns :
       (bpc[b] = "iter" /\ Cardinality(snap[b]) = n)
          ~> (bpc[b] = "done" /\ report[b].attempted = n)

\* two broadcasts of several handles have returned, one of them with a failed send
C18_Witness ==
    /\ \A b \in TwoBcasts : bpc[b] = "done" /\ report[b].attempted >= 2
    /\ \E b \in TwoBcasts : report[b].failed >= 1

\* C19: a broadcast removes only the handles whose send failed in that
\* broadcast.  In every step of the manager, with broadcasts, dispatches and
\* connects interleaved: a registered handle whose transport is open stays
\* registered; a handle leaves active_connections only by its endpoint's
\* disconnect or by the cleanup of a broadcast in which its send failed; the
\* cleanup keeps every other handle, those added since the snapshot
\* included; and the broadcast returns with its failed handles absent, also
\* when another broadcast has removed them already.
C19_Returns(b) ==
    (bpc[b] = "iter" /\ bpc'[b] = "done") =>
        \E c \in snap[b] \ visited[b] :
           LET failed == IF CanSend(c) THEN disconnected[b] ELSE disconnected[b] \cup {c}
           IN /\ active_connections' = active_connections \ failed
              /\ (active_connections \ snap[b]) \subseteq active_connections'
              /\ \A d \in failed : transport[d] = "closed"

C19_Removal(c) ==
    /\ (c \in active_connections /\ transport[c] = "open") => c \in active_connections'
    /\ (c \in active_connections /\ c \notin active_connections') =>
          \/ pc[c] = "recv" /\ pc'[c] = "end"
          \/ \E b \in Bcasts :
                /\ bpc[b] = "iter" /\ bpc'[b] = "done"
                /\ c \in disconnected[b] \cup (snap[b] \ visited[b])

C19_Step ==
    /\ \A b \in Bcasts : C19_Returns(b)
    /\ \A c \in Conns : C19_Removal(c)
    /\ \A b \in Bcasts : bpc'[b] # "raised"

C19_BroadcastRemovesOnlyFailed == [][C19_Step]_vars

\* two broadcasts have each returned with a failed send, both on the one
\* handle whose transport closed; the other handle, which has been sent a
\* reply, is registered
C19_Witness ==
    /\ \A b \in TwoBcasts : bpc[b] = "done" /\ report[b].failed = 1
    /\ \E c \in Conns :
          /\ transport[c] = "closed" /\ c \notin active_connections
          /\ \A d \in Conns \ {c} :
                /\ transport[d] = "open"
                /\ d \in active_connections
                /\ lastSend[d] = "ok"

=============================================================================
